---- MODULE Spec2Model ----
(***************************************************************************)
(* Model of the ckETH minter's multi-provider RPC client                    *)
(* (rs/ethereum/cketh/minter/src/eth_rpc_client/mod.rs): the aggregate     *)
(* MultiCallResults, its classification all_ok and the three reductions.   *)
(***************************************************************************)
EXTENDS Integers, Sequences, FiniteSets, TLC

\* ---------------------------------------------------------------- bounds
\* Providers of an aggregate that may hold values and errors.
MaxProviders == 4

\* Providers of an aggregate in which every provider returned a value.
MaxVoters == 5

\* Distinct keys the extractor can return.
MaxKey == 3

\* Providers of an aggregate whose errors are of three kinds.
MaxErrProviders == 3

\* Length of an explicit provider list of a client.
MaxList == 3

\* ---------------------------------------------------------------- data
\* A provider (RpcNodeProvider) is a number: the identities are totally ordered
\* (derive(Ord)) and the BTreeMap of an aggregate iterates in this order.

\* What a response value holds besides its key.
Data == {"a", "b"}

\* A response value T: the part the key extractor reads and the rest.
T == [key : 1..MaxKey, data : Data]

\* The extractor closure handed to the by-key reductions
\* (|fee_history| fee_history.oldest_block).
extractor(value) == value.key

JsonRpcError(code, message) ==
    [kind |-> "JsonRpcError", code |-> code, message |-> message]

HttpOutcallError(code, message) ==
    [kind |-> "HttpOutcallError", code |-> code, message |-> message]

ProviderError(message) ==
    [kind |-> "ProviderError", code |-> 0, message |-> message]

\* The provider errors that occur in the checked aggregates.
RpcError == { JsonRpcError(32000, "x"), HttpOutcallError(2, "timeout") }

\* Errors of the three kinds of RpcError.
AllRpcError == RpcError \cup { ProviderError("ProviderNotFound") }

Ok(value) == [ok |-> TRUE, value |-> value]

Err(error) == [ok |-> FALSE, error |-> error]

\* Result<T, RpcError>
CallResult == {Ok(v) : v \in T} \cup {Err(e) : e \in RpcError}

\* Terminal results of all_ok and of the reductions.
ROk(value) == [tag |-> "Ok", value |-> value]

ConsistentError(error) == [tag |-> "ConsistentError", error |-> error]

InconsistentResults(results) == [tag |-> "InconsistentResults", results |-> results]

Panic(message) == [tag |-> "Panic", message |-> message]

NoResult == [tag |-> "None"]

VARIABLES
    agg,         \* MultiCallResults.results: provider -> Result<T, RpcError>
    consistent,  \* the error-consistency predicate, as a set of error pairs
    op,          \* the operation applied to the aggregate
    res,         \* what the operation returned
    client,      \* EthRpcClient: chain and the optional explicit provider list
    call,        \* the dispatch strategy that is running or has run
    pc,          \* where the running call stands
    idx,         \* position in the provider list of the sequential loop
    last_result, \* last_result of sequential_call_until_ok
    calls,       \* positions of the provider list in the order eth_rpc::call was issued
    pending,     \* positions whose call is in flight
    outcomes,    \* position -> outcome of its completed call
    reordered,   \* some call completed before a call issued earlier
    ret,         \* what sequential_call_until_ok returned
    contacted,   \* the providers handed to eth_rpc::call, in the order of the calls
    predicate,   \* the HttpOutcallErrors the inspector's predicate accepts
    matches,     \* what has_http_outcall_error_matching answered
    invocations, \* the locals of each of several calls running on one client
    replies,     \* <<invocation, position>> -> what that eth_rpc::call returned
    registry,    \* ActiveExecutionStateRegistry: exec id -> its execution state
    issued,      \* the exec ids the registry has handed out
    completions, \* exec id -> how often its completion closure was invoked
    finishing,   \* exec id -> exec_output of the request holding its extracted completion
    served       \* the last request to the controller service and what it did

\* The state of the call orchestrator.
callVars ==
    <<client, call, pc, idx, last_result, calls, pending, outcomes, reordered, ret, contacted>>

\* The state of the error inspector.
inspVars == <<predicate, matches>>

\* The state of the calls that run interleaved on one client.
invVars == <<invocations, replies>>

\* The state of the controller service and of the registry behind it.
ctlVars == <<registry, issued, completions, finishing, served>>

vars == <<agg, consistent, op, res, callVars, inspVars, invVars, ctlVars>>

\* ---------------------------------------------------------------- helpers
Min(S) == CHOOSE x \in S : \A y \in S : x <= y

Max(S) == CHOOSE x \in S : \A y \in S : x >= y

RECURSIVE SortedSeq(_)
SortedSeq(S) == IF S = {} THEN <<>> ELSE <<Min(S)>> \o SortedSeq(S \ {Min(S)})

EmptyMap == [p \in {} |-> 0]

\* BTreeMap::into_iter: the entries as (key, value) pairs in key order.
into_iter(map) ==
    LET keys == SortedSeq(DOMAIN map)
    IN  [i \in 1..Len(keys) |-> <<keys[i], map[keys[i]]>>]

\* BTreeMap::from_iter: a later pair with the same key replaces an earlier one.
RECURSIVE BTreeMapFromIter(_)
BTreeMapFromIter(iter) ==
    IF iter = <<>> THEN EmptyMap
    ELSE LET last == iter[Len(iter)]
         IN  (last[1] :> last[2]) @@ BTreeMapFromIter(SubSeq(iter, 1, Len(iter) - 1))

\* BTreeMap::last_key_value / pop_last: the entry of the greatest key.
last_key_value(map) == <<Max(DOMAIN map), map[Max(DOMAIN map)]>>

\* The map keying every value by the provider of the first pair.
WrapOk_rekeyed(iter) == [i \in 1..Len(iter) |-> <<iter[1][1], Ok(iter[i][2])>>]

\* .map(|(provider, result)| (provider, Ok(result)))
WrapOk(iter) == [i \in 1..Len(iter) |-> <<iter[i][1], Ok(iter[i][2])>>]

\* from_non_empty_iter answering an empty source with a placeholder entry.
from_non_empty_iter_default(iter) ==
    LET results == BTreeMapFromIter(iter)
    IN  IF DOMAIN results = {}
        THEN InconsistentResults(1 :> Err(ProviderError("ProviderNotFound")))
        ELSE InconsistentResults(results)

\* from_non_empty_iter without the emptiness check.
from_non_empty_iter_unchecked(iter) == InconsistentResults(BTreeMapFromIter(iter))

\* MultiCallResults::from_non_empty_iter wrapped in
\* MultiCallError::InconsistentResults; an empty source panics.
from_non_empty_iter(iter) ==
    LET results == BTreeMapFromIter(iter)
    IN  IF DOMAIN results = {}
        THEN Panic("BUG: MultiCallResults cannot be empty!")
        ELSE InconsistentResults(results)

\* eth_rpc::are_errors_consistent on two Err results.
are_errors_consistent(left, right) == <<left.error, right.error>> \in consistent

\* ---------------------------------------------------------------- all_ok
Some(provider, result) == [some |-> TRUE, provider |-> provider, result |-> result]

None == [some |-> FALSE]

\* all_ok_finish losing the message of a JSON-RPC error.
all_ok_finish_no_message(results, first_error) ==
    IF ~first_error.some THEN ROk(results)
    ELSE IF first_error.result.ok THEN Panic("BUG: first_error should be an error type")
    ELSE IF first_error.result.error.kind = "JsonRpcError"
    THEN ConsistentError(JsonRpcError(first_error.result.error.code, ""))
    ELSE ConsistentError(first_error.result.error)

\* all_ok_finish wrapping every held error as a JSON-RPC error.
all_ok_finish_as_json(results, first_error) ==
    IF ~first_error.some THEN ROk(results)
    ELSE IF first_error.result.ok THEN Panic("BUG: first_error should be an error type")
    ELSE ConsistentError(JsonRpcError(first_error.result.error.code,
                                      first_error.result.error.message))

\* What all_ok returns once the scan is over.
all_ok_finish(results, first_error) ==
    IF ~first_error.some THEN ROk(results)
    ELSE IF first_error.result.ok THEN Panic("BUG: first_error should be an error type")
    ELSE IF first_error.result.error.kind = "JsonRpcError"
    THEN ConsistentError(JsonRpcError(first_error.result.error.code,
                                      first_error.result.error.message))
    ELSE ConsistentError(first_error.result.error)

\* all_ok's scan with the new error replacing the held candidate.
RECURSIVE all_ok_loop_replace(_, _, _)
all_ok_loop_replace(iter, results, first_error) ==
    IF iter = <<>> THEN all_ok_finish(results, first_error)
    ELSE LET provider == Head(iter)[1]
             result == Head(iter)[2]
         IN  IF result.ok
             THEN all_ok_loop_replace(Tail(iter), (provider :> result.value) @@ results,
                                      first_error)
             ELSE IF ~first_error.some
             THEN all_ok_loop_replace(Tail(iter), results, Some(provider, result))
             ELSE IF ~are_errors_consistent(first_error.result, result)
             THEN from_non_empty_iter(<< <<first_error.provider, first_error.result>>,
                                         <<provider, result>> >>)
             ELSE all_ok_loop_replace(Tail(iter), results, Some(provider, result))

\* all_ok's scan with a usable value clearing the held candidate.
RECURSIVE all_ok_loop_reset(_, _, _)
all_ok_loop_reset(iter, results, first_error) ==
    IF iter = <<>> THEN all_ok_finish(results, first_error)
    ELSE LET provider == Head(iter)[1]
             result == Head(iter)[2]
         IN  IF result.ok
             THEN all_ok_loop_reset(Tail(iter), (provider :> result.value) @@ results, None)
             ELSE IF ~first_error.some
             THEN all_ok_loop_reset(Tail(iter), results, Some(provider, result))
             ELSE IF ~are_errors_consistent(first_error.result, result)
             THEN from_non_empty_iter(<< <<first_error.provider, first_error.result>>,
                                         <<provider, result>> >>)
             ELSE all_ok_loop_reset(Tail(iter), results,
                                    Some(first_error.provider, first_error.result))

\* all_ok's scan forgetting the usable values.
RECURSIVE all_ok_loop_drop_values(_, _, _)
all_ok_loop_drop_values(iter, results, first_error) ==
    IF iter = <<>> THEN all_ok_finish(results, first_error)
    ELSE LET provider == Head(iter)[1]
             result == Head(iter)[2]
         IN  IF result.ok
             THEN all_ok_loop_drop_values(Tail(iter), results, first_error)
             ELSE IF ~first_error.some
             THEN all_ok_loop_drop_values(Tail(iter), results, Some(provider, result))
             ELSE IF ~are_errors_consistent(first_error.result, result)
             THEN from_non_empty_iter(<< <<first_error.provider, first_error.result>>,
                                         <<provider, result>> >>)
             ELSE all_ok_loop_drop_values(Tail(iter), results,
                                          Some(first_error.provider, first_error.result))

\* all_ok's scan reporting the values seen so far next to the two errors.
RECURSIVE all_ok_loop_with_values(_, _, _)
all_ok_loop_with_values(iter, results, first_error) ==
    IF iter = <<>> THEN all_ok_finish(results, first_error)
    ELSE LET provider == Head(iter)[1]
             result == Head(iter)[2]
         IN  IF result.ok
             THEN all_ok_loop_with_values(Tail(iter), (provider :> result.value) @@ results,
                                          first_error)
             ELSE IF ~first_error.some
             THEN all_ok_loop_with_values(Tail(iter), results, Some(provider, result))
             ELSE IF ~are_errors_consistent(first_error.result, result)
             THEN from_non_empty_iter(<< <<first_error.provider, first_error.result>>,
                                         <<provider, result>> >>
                                          \o WrapOk(into_iter(results)))
             ELSE all_ok_loop_with_values(Tail(iter), results,
                                          Some(first_error.provider, first_error.result))

\* The scan of all_ok over the entries `iter` still to visit.
RECURSIVE all_ok_loop(_, _, _)
all_ok_loop(iter, results, first_error) ==
    IF iter = <<>> THEN all_ok_finish(results, first_error)
    ELSE LET provider == Head(iter)[1]
             result == Head(iter)[2]
         IN  IF result.ok
             THEN all_ok_loop(Tail(iter), (provider :> result.value) @@ results, first_error)
             ELSE IF ~first_error.some
             THEN all_ok_loop(Tail(iter), results, Some(provider, result))
             ELSE IF ~are_errors_consistent(first_error.result, result)
             THEN from_non_empty_iter(<< <<first_error.provider, first_error.result>>,
                                         <<provider, result>> >>)
             ELSE all_ok_loop(Tail(iter), results,
                              Some(first_error.provider, first_error.result))

\* all_ok answering with the usable values whenever there is one.
all_ok_lenient(self) ==
    LET oks == {p \in DOMAIN self : self[p].ok}
    IN  IF oks # {} THEN ROk([p \in oks |-> self[p].value])
        ELSE all_ok_loop(into_iter(self), EmptyMap, None)

all_ok(self) == all_ok_loop(into_iter(self), EmptyMap, None)

\* ---------------------------------------------------------------- reductions
\* reduce_with_equality comparing the extracted keys only.
reduce_with_equality_by_key(self) ==
    LET all == all_ok(self)
    IN  IF all.tag # "Ok" THEN all
        ELSE LET results == into_iter(all.value)
             IN  IF results = <<>>
                 THEN Panic("BUG: MultiCallResults is guaranteed to be non-empty")
                 ELSE LET base == Head(results)
                          inconsistent_results ==
                              SelectSeq(Tail(results),
                                        LAMBDA e : extractor(e[2]) # extractor(base[2]))
                      IN  IF inconsistent_results # <<>>
                          THEN from_non_empty_iter(WrapOk(Append(inconsistent_results, base)))
                          ELSE ROk(base[2])

\* reduce_with_equality with the filter inverted.
reduce_with_equality_eq_filter(self) ==
    LET all == all_ok(self)
    IN  IF all.tag # "Ok" THEN all
        ELSE LET results == into_iter(all.value)
             IN  IF results = <<>>
                 THEN Panic("BUG: MultiCallResults is guaranteed to be non-empty")
                 ELSE LET base == Head(results)
                          inconsistent_results ==
                              SelectSeq(Tail(results), LAMBDA e : e[2] = base[2])
                      IN  IF inconsistent_results # <<>>
                          THEN from_non_empty_iter(WrapOk(Append(inconsistent_results, base)))
                          ELSE ROk(base[2])

\* reduce_with_equality reporting every value once one differs.
reduce_with_equality_all(self) ==
    LET all == all_ok(self)
    IN  IF all.tag # "Ok" THEN all
        ELSE LET results == into_iter(all.value)
             IN  IF results = <<>>
                 THEN Panic("BUG: MultiCallResults is guaranteed to be non-empty")
                 ELSE LET base == Head(results)
                          inconsistent_results ==
                              SelectSeq(Tail(results), LAMBDA e : e[2] # base[2])
                      IN  IF inconsistent_results # <<>>
                          THEN from_non_empty_iter(WrapOk(results))
                          ELSE ROk(base[2])

reduce_with_equality(self) ==
    LET all == all_ok(self)
    IN  IF all.tag # "Ok" THEN all
        ELSE LET results == into_iter(all.value)
             IN  IF results = <<>>
                 THEN Panic("BUG: MultiCallResults is guaranteed to be non-empty")
                 ELSE LET base == Head(results)
                          inconsistent_results ==
                              SelectSeq(Tail(results), LAMBDA e : e[2] # base[2])
                      IN  IF inconsistent_results # <<>>
                          THEN from_non_empty_iter(WrapOk(Append(inconsistent_results, base)))
                          ELSE ROk(base[2])

\* min_by_key giving the smallest key the rest of the value held so far.
RECURSIVE min_by_key_merged(_, _)
min_by_key_merged(values, best) ==
    IF values = <<>> THEN best
    ELSE IF extractor(Head(values)) < extractor(best)
    THEN min_by_key_merged(Tail(values), [key |-> Head(values).key, data |-> best.data])
    ELSE min_by_key_merged(Tail(values), best)

\* min_by_key keeping the greatest key.
RECURSIVE min_by_key_max(_, _)
min_by_key_max(values, best) ==
    IF values = <<>> THEN best
    ELSE IF extractor(Head(values)) > extractor(best)
    THEN min_by_key_max(Tail(values), Head(values))
    ELSE min_by_key_max(Tail(values), best)

\* min_by_key returning the last of several equally minimal elements.
RECURSIVE min_by_key_last(_, _)
min_by_key_last(values, best) ==
    IF values = <<>> THEN best
    ELSE IF extractor(Head(values)) <= extractor(best)
    THEN min_by_key_last(Tail(values), Head(values))
    ELSE min_by_key_last(Tail(values), best)

\* Iterator::min_by_key: of several equally minimal elements the first one.
RECURSIVE min_by_key(_, _)
min_by_key(values, best) ==
    IF values = <<>> THEN best
    ELSE IF extractor(Head(values)) < extractor(best)
    THEN min_by_key(Tail(values), Head(values))
    ELSE min_by_key(Tail(values), best)

reduce_with_min_by_key(self) ==
    LET all == all_ok(self)
    IN  IF all.tag # "Ok" THEN all
        ELSE LET values == into_iter(all.value)
             IN  IF values = <<>>
                 THEN Panic("BUG: MultiCallResults is guaranteed to be non-empty")
                 ELSE ROk(min_by_key([i \in 1..Len(values) |-> values[i][2]], values[1][2]))

\* The bucketing loop without the same-key equality check.
RECURSIVE votes_loop_unchecked(_, _)
votes_loop_unchecked(iter, votes_by_key) ==
    IF iter = <<>> THEN [tag |-> "Votes", votes_by_key |-> votes_by_key]
    ELSE LET provider == Head(iter)[1]
             result == Head(iter)[2]
             key == extractor(result)
         IN  IF key \in DOMAIN votes_by_key
             THEN votes_loop_unchecked(Tail(iter),
                      (key :> ((provider :> result) @@ votes_by_key[key])) @@ votes_by_key)
             ELSE votes_loop_unchecked(Tail(iter),
                      (key :> (provider :> result)) @@ votes_by_key)

\* The bucketing loop reporting only the bucket's representative and the new
\* value.
RECURSIVE votes_loop_pair(_, _)
votes_loop_pair(iter, votes_by_key) ==
    IF iter = <<>> THEN [tag |-> "Votes", votes_by_key |-> votes_by_key]
    ELSE LET provider == Head(iter)[1]
             result == Head(iter)[2]
             key == extractor(result)
         IN  IF key \in DOMAIN votes_by_key
             THEN LET votes_for_same_key == votes_by_key[key]
                      other == last_key_value(votes_for_same_key)
                  IN  IF result # other[2]
                      THEN from_non_empty_iter(WrapOk(<<other, <<provider, result>> >>))
                      ELSE votes_loop_pair(Tail(iter),
                               (key :> ((provider :> result) @@ votes_for_same_key))
                                   @@ votes_by_key)
             ELSE votes_loop_pair(Tail(iter), (key :> (provider :> result)) @@ votes_by_key)

\* The bucketing loop of reduce_with_strict_majority_by_key: the votes by key,
\* or the error of the first value that differs from its bucket.
RECURSIVE votes_loop(_, _)
votes_loop(iter, votes_by_key) ==
    IF iter = <<>> THEN [tag |-> "Votes", votes_by_key |-> votes_by_key]
    ELSE LET provider == Head(iter)[1]
             result == Head(iter)[2]
             key == extractor(result)
         IN  IF key \in DOMAIN votes_by_key
             THEN LET votes_for_same_key == votes_by_key[key]
                      other_result == last_key_value(votes_for_same_key)[2]
                  IN  IF result # other_result
                      THEN from_non_empty_iter(
                               WrapOk(Append(into_iter(votes_for_same_key),
                                             <<provider, result>>)))
                      ELSE votes_loop(Tail(iter),
                               (key :> ((provider :> result) @@ votes_for_same_key))
                                   @@ votes_by_key)
             ELSE votes_loop(Tail(iter), (key :> (provider :> result)) @@ votes_by_key)

\* Permutations of a finite set, as sequences.
Perms(S) ==
    { s \in [1..Cardinality(S) -> S] : \A i, j \in DOMAIN s : i # j => s[i] # s[j] }

\* tally.sort_unstable_by(ballot length): every order of the (key, ballot)
\* pairs that is non-decreasing in ballot length; the order of buckets of
\* equal length is not fixed by the sort.
sort_unstable_by_len(votes_by_key) ==
    { [i \in DOMAIN s |-> <<s[i], votes_by_key[s[i]]>>] :
        s \in { t \in Perms(DOMAIN votes_by_key) :
                  \A i, j \in DOMAIN t :
                      i < j => Cardinality(DOMAIN votes_by_key[t[i]])
                                 <= Cardinality(DOMAIN votes_by_key[t[j]]) } }

\* Number of votes in a tally.
RECURSIVE TallyVotes(_)
TallyVotes(tally) ==
    IF tally = <<>> THEN 0
    ELSE Cardinality(DOMAIN Head(tally)[2]) + TallyVotes(Tail(tally))

\* The final match demanding more than half of all votes.
tally_result_absolute(tally) ==
    IF Len(tally) = 0 THEN Panic("BUG: tally should be non-empty")
    ELSE IF Len(tally) = 1 THEN ROk(last_key_value(tally[1][2])[2])
    ELSE LET first == tally[Len(tally)]
             second == tally[Len(tally) - 1]
         IN  IF 2 * Cardinality(DOMAIN first[2]) > TallyVotes(tally)
             THEN ROk(last_key_value(first[2])[2])
             ELSE from_non_empty_iter(WrapOk(into_iter(first[2]) \o into_iter(second[2])))

\* The final match accepting a tie.
tally_result_ge(tally) ==
    IF Len(tally) = 0 THEN Panic("BUG: tally should be non-empty")
    ELSE IF Len(tally) = 1 THEN ROk(last_key_value(tally[1][2])[2])
    ELSE LET first == tally[Len(tally)]
             second == tally[Len(tally) - 1]
         IN  IF Cardinality(DOMAIN first[2]) >= Cardinality(DOMAIN second[2])
             THEN ROk(last_key_value(first[2])[2])
             ELSE from_non_empty_iter(WrapOk(into_iter(first[2]) \o into_iter(second[2])))

\* The match on tally.len() at the end of reduce_with_strict_majority_by_key.
tally_result(tally) ==
    IF Len(tally) = 0 THEN Panic("BUG: tally should be non-empty")
    ELSE IF Len(tally) = 1 THEN ROk(last_key_value(tally[1][2])[2])
    ELSE LET first == tally[Len(tally)]
             second == tally[Len(tally) - 1]
         IN  IF Cardinality(DOMAIN first[2]) > Cardinality(DOMAIN second[2])
             THEN ROk(last_key_value(first[2])[2])
             ELSE from_non_empty_iter(WrapOk(into_iter(first[2]) \o into_iter(second[2])))

\* The set of results reduce_with_strict_majority_by_key can return: one for
\* every order the unstable sort can leave the tally in.
reduce_with_strict_majority_by_key(self) ==
    LET all == all_ok(self)
    IN  IF all.tag # "Ok" THEN {all}
        ELSE LET votes == votes_loop(into_iter(all.value), EmptyMap)
             IN  IF votes.tag # "Votes" THEN {votes}
                 ELSE { tally_result(tally) : tally \in sort_unstable_by_len(votes.votes_by_key) }

\* ---------------------------------------------------------------- inputs
\* Error-consistency predicates: reflexive and symmetric relations on RpcError.
ConsistencyPredicates ==
    { r \in SUBSET (RpcError \X RpcError) :
        /\ \A e \in RpcError : <<e, e>> \in r
        /\ \A e, f \in RpcError : <<e, f>> \in r => <<f, e>> \in r }

\* EthRpcClient::from_state: the client of a network, without explicit list.
from_state(chain) == [chain |-> chain, providers |-> None]

\* No call of the client is running.
NoCall ==
    /\ client = from_state("Mainnet")
    /\ call = "none"
    /\ pc = "idle"
    /\ idx = 0
    /\ last_result = None
    /\ calls = <<>>
    /\ pending = {}
    /\ outcomes = EmptyMap
    /\ reordered = FALSE
    /\ ret = NoResult
    /\ contacted = <<>>

\* The inspector has not been asked.
NoInspection ==
    /\ predicate = {}
    /\ matches = None

\* The calls a client is followed through when several run interleaved.
Invocations == {"first", "second"}

\* The locals of a call that has not started.
IdleInvocation ==
    [strategy |-> "none", pc |-> "idle", idx |-> 0, last_result |-> None,
     pending |-> {}, outcomes |-> EmptyMap, agg |-> EmptyMap, ret |-> NoResult]

\* No interleaved call has started.
NoInvocations ==
    /\ invocations = [i \in Invocations |-> IdleInvocation]
    /\ replies = EmptyMap

\* No request has reached the controller service.
NoRequest == [handler |-> "none"]

\* No execution is registered and no request was served.
NoExecutions ==
    /\ registry = EmptyMap
    /\ issued = {}
    /\ completions = EmptyMap
    /\ finishing = EmptyMap
    /\ served = NoRequest

\* Non-empty aggregates over the first n providers.
Aggregates == UNION { [1..n -> CallResult] : n \in 1..MaxProviders }

\* Non-empty aggregates in which every provider returned a value.
OkAggregates == UNION { [1..n -> {Ok(v) : v \in T}] : n \in 1..MaxVoters }

\* Structural equality of errors as the consistency predicate.
EqualErrors == { <<e, e>> : e \in RpcError }

Init ==
    /\ agg \in Aggregates
    /\ consistent \in ConsistencyPredicates
    /\ op = "none"
    /\ res = NoResult
    /\ NoCall
    /\ NoInspection
    /\ NoInvocations
    /\ NoExecutions

\* ---------------------------------------------------------------- actions
AllOk ==
    /\ op = "none"
    /\ op' = "all_ok"
    /\ res' = all_ok(agg)
    /\ UNCHANGED <<agg, consistent, callVars, inspVars, invVars, ctlVars>>

ReduceWithEquality ==
    /\ op = "none"
    /\ op' = "reduce_with_equality"
    /\ res' = reduce_with_equality(agg)
    /\ UNCHANGED <<agg, consistent, callVars, inspVars, invVars, ctlVars>>

ReduceWithMinByKey ==
    /\ op = "none"
    /\ op' = "reduce_with_min_by_key"
    /\ res' = reduce_with_min_by_key(agg)
    /\ UNCHANGED <<agg, consistent, callVars, inspVars, invVars, ctlVars>>

ReduceWithStrictMajorityByKey ==
    /\ op = "none"
    /\ op' = "reduce_with_strict_majority_by_key"
    /\ res' \in reduce_with_strict_majority_by_key(agg)
    /\ UNCHANGED <<agg, consistent, callVars, inspVars, invVars, ctlVars>>

Next ==
    \/ AllOk
    \/ ReduceWithEquality
    \/ ReduceWithMinByKey
    \/ ReduceWithStrictMajorityByKey

Spec == Init /\ [][Next]_vars

\* Error-consistency predicates on the errors of three kinds, transitive or not.
WidePredicates ==
    { r \in SUBSET (AllRpcError \X AllRpcError) :
        /\ \A e \in AllRpcError : <<e, e>> \in r
        /\ \A e, f \in AllRpcError : <<e, f>> \in r => <<f, e>> \in r }

\* Non-empty aggregates whose errors are of three kinds.
ErrAggregates ==
    UNION { [1..n -> {Ok(v) : v \in T} \cup {Err(e) : e \in AllRpcError}] :
              n \in 1..MaxErrProviders }

\* The same operations on aggregates with three kinds of errors.
InitErrors ==
    /\ agg \in ErrAggregates
    /\ consistent \in WidePredicates
    /\ op = "none"
    /\ res = NoResult
    /\ NoCall
    /\ NoInspection
    /\ NoInvocations
    /\ NoExecutions

SpecErrors == InitErrors /\ [][Next]_vars

\* The same operations on the aggregates in which every provider returned a
\* value.
InitVotes ==
    /\ agg \in OkAggregates
    /\ consistent = EqualErrors
    /\ op = "none"
    /\ res = NoResult
    /\ NoCall
    /\ NoInspection
    /\ NoInvocations
    /\ NoExecutions

SpecVotes == InitVotes /\ [][Next]_vars

\* ---------------------------------------------------------------- call orchestrator
EthereumNetwork == {"Mainnet", "Sepolia"}

\* The default provider lists of the two networks.
MAINNET_PROVIDERS == <<1, 2>>

SEPOLIA_PROVIDERS == <<3, 4>>

SomeOf(value) == [some |-> TRUE, value |-> value]

\* EthRpcClient::new
new(chain, providers_opt) == [chain |-> chain, providers |-> providers_opt]

\* providers with the default lists of the two networks exchanged.
providers_swapped(self) ==
    IF self.providers.some THEN self.providers.value
    ELSE IF self.chain = "Mainnet" THEN SEPOLIA_PROVIDERS
    ELSE MAINNET_PROVIDERS

\* EthRpcClient::providers: the explicit list when there is one, otherwise the
\* default list of the client's network.
providers(self) ==
    IF self.providers.some THEN self.providers.value
    ELSE IF self.chain = "Mainnet" THEN MAINNET_PROVIDERS
    ELSE SEPOLIA_PROVIDERS

\* Provider identities of both networks.
AllProviders ==
    {MAINNET_PROVIDERS[i] : i \in DOMAIN MAINNET_PROVIDERS}
        \cup {SEPOLIA_PROVIDERS[i] : i \in DOMAIN SEPOLIA_PROVIDERS}

\* Explicit provider lists: any vector of providers, the empty one included.
ProviderLists == UNION { [1..n -> AllProviders] : n \in 0..MaxList }

Clients ==
    {from_state(chain) : chain \in EthereumNetwork}
        \cup {new(chain, SomeOf(list)) : chain \in EthereumNetwork, list \in ProviderLists}

\* What one eth_rpc::call can return.
CallValues == {v \in T : v.key = 1}

CallOutcomes == {Ok(v) : v \in CallValues} \cup {Err(e) : e \in AllRpcError}

\* The match of sequential_call_until_ok going on after a success.
seq_match_keep_going(result, held) ==
    IF result.ok
    THEN [returns |-> FALSE, value |-> NoResult, last_result |-> SomeOf(Ok(result.value))]
    ELSE IF result.error.kind = "JsonRpcError"
    THEN [returns |-> FALSE, value |-> NoResult,
          last_result |-> SomeOf(Err(JsonRpcError(result.error.code, result.error.message)))]
    ELSE [returns |-> FALSE, value |-> NoResult, last_result |-> SomeOf(Err(result.error))]

\* The match of sequential_call_until_ok keeping a held JSON-RPC error when a
\* later provider fails in another way.
seq_match_prefer_json(result, held) ==
    IF result.ok
    THEN [returns |-> TRUE, value |-> Ok(result.value), last_result |-> held]
    ELSE IF result.error.kind = "JsonRpcError"
    THEN [returns |-> FALSE, value |-> NoResult,
          last_result |-> SomeOf(Err(JsonRpcError(result.error.code, result.error.message)))]
    ELSE IF held.some /\ held.value.error.kind = "JsonRpcError"
    THEN [returns |-> FALSE, value |-> NoResult, last_result |-> held]
    ELSE [returns |-> FALSE, value |-> NoResult, last_result |-> SomeOf(Err(result.error))]

\* The match of sequential_call_until_ok remembering JSON-RPC errors only.
seq_match_drop_other(result, held) ==
    IF result.ok
    THEN [returns |-> TRUE, value |-> Ok(result.value), last_result |-> held]
    ELSE IF result.error.kind = "JsonRpcError"
    THEN [returns |-> FALSE, value |-> NoResult,
          last_result |-> SomeOf(Err(JsonRpcError(result.error.code, result.error.message)))]
    ELSE [returns |-> FALSE, value |-> NoResult, last_result |-> held]

\* The match on the result of one call in sequential_call_until_ok: whether the
\* function returns, with what, and the new last_result.
seq_match(result, held) ==
    IF result.ok
    THEN [returns |-> TRUE, value |-> Ok(result.value), last_result |-> held]
    ELSE IF result.error.kind = "JsonRpcError"
    THEN [returns |-> FALSE, value |-> NoResult,
          last_result |-> SomeOf(Err(JsonRpcError(result.error.code, result.error.message)))]
    ELSE [returns |-> FALSE, value |-> NoResult, last_result |-> SomeOf(Err(result.error))]

\* last_result.unwrap_or_else(|| panic!(..))
unwrap_or_else_panic(held) ==
    IF held.some THEN held.value ELSE Panic("BUG: No providers in RPC client")

\* sequential_call_until_ok issuing the calls to all providers at once.
SequentialStartEager ==
    /\ pc = "idle"
    /\ call' = "sequential_call_until_ok"
    /\ last_result' = None
    /\ IF Len(providers(client)) = 0
       THEN /\ pc' = "panicked"
            /\ ret' = unwrap_or_else_panic(None)
            /\ UNCHANGED <<idx, calls, pending, contacted>>
       ELSE /\ pc' = "seq_await"
            /\ idx' = 1
            /\ calls' = [i \in 1..Len(providers(client)) |-> i]
            /\ pending' = 1..Len(providers(client))
            /\ contacted' = providers(client)
            /\ ret' = ret
    /\ UNCHANGED <<agg, consistent, op, res, client, outcomes, reordered, inspVars, invVars, ctlVars>>

\* sequential_call_until_ok up to its first await: the call to the first
\* provider is issued; with no provider the function panics.
SequentialStart ==
    /\ pc = "idle"
    /\ call' = "sequential_call_until_ok"
    /\ last_result' = None
    /\ IF Len(providers(client)) = 0
       THEN /\ pc' = "panicked"
            /\ ret' = unwrap_or_else_panic(None)
            /\ UNCHANGED <<idx, calls, pending, contacted>>
       ELSE /\ pc' = "seq_await"
            /\ idx' = 1
            /\ calls' = <<1>>
            /\ pending' = {1}
            /\ contacted' = <<providers(client)[1]>>
            /\ ret' = ret
    /\ UNCHANGED <<agg, consistent, op, res, client, outcomes, reordered, inspVars, invVars, ctlVars>>

\* The awaited call returns: sequential_call_until_ok returns the value, or
\* remembers the error and calls the next provider, or returns the last error.
SequentialResume ==
    /\ pc = "seq_await"
    /\ \E result \in CallOutcomes :
          LET m == seq_match(result, last_result)
          IN  /\ outcomes' = (idx :> result) @@ outcomes
              /\ last_result' = m.last_result
              /\ IF m.returns
                 THEN /\ pc' = "returned"
                      /\ ret' = m.value
                      /\ pending' = pending \ {idx}
                      /\ UNCHANGED <<idx, calls, contacted>>
                 ELSE IF idx < Len(providers(client))
                 THEN /\ idx' = idx + 1
                      /\ calls' = Append(calls, idx + 1)
                      /\ pending' = (pending \ {idx}) \cup {idx + 1}
                      /\ contacted' = Append(contacted, providers(client)[idx + 1])
                      /\ UNCHANGED <<pc, ret>>
                 ELSE /\ pc' = IF m.last_result.some THEN "returned" ELSE "panicked"
                      /\ ret' = unwrap_or_else_panic(m.last_result)
                      /\ pending' = pending \ {idx}
                      /\ UNCHANGED <<idx, calls, contacted>>
    /\ UNCHANGED <<agg, consistent, op, res, client, call, reordered, inspVars, invVars, ctlVars>>

\* The calls still in flight once call i has failed, the others being
\* cancelled.
still_pending_cancel(pend, i, result) == IF result.ok THEN pend \ {i} ELSE {}

\* The calls still in flight once call i has completed.
still_pending(pend, i, result) == pend \ {i}

\* join_all resolving as soon as one call has completed.
join_all_ready_any(pend, outs) == DOMAIN outs # {}

\* join_all never resolving.
join_all_ready_never(pend, outs) == FALSE

\* join_all resolves when no call is in flight any more.
join_all_ready(pend, outs) == pend = {}

\* The providers paired with the results taken from the end of the vector.
zip_reversed(list, outs) ==
    LET done == SortedSeq(DOMAIN outs)
    IN  [k \in 1..Len(done) |-> <<list[done[k]], outs[done[Len(done) + 1 - k]]>>]

\* providers.iter().cloned().zip(results.into_iter()): the providers paired
\* with the results of join_all, which are in the order of the providers.
zip(list, outs) ==
    LET done == SortedSeq(DOMAIN outs)
    IN  [k \in 1..Len(done) |-> <<list[done[k]], outs[done[k]]>>]

\* parallel_call up to the await of join_all: one future per provider of the
\* list, all polled by join_all. With no provider join_all is ready at once and
\* the aggregate is built from the empty zip without suspending.
ParallelStart ==
    /\ pc = "idle"
    /\ call' = "parallel_call"
    /\ calls' = [i \in 1..Len(providers(client)) |-> i]
    /\ pending' = 1..Len(providers(client))
    /\ contacted' = providers(client)
    /\ IF Len(providers(client)) = 0
       THEN LET built == from_non_empty_iter(zip(providers(client), EmptyMap))
            IN  IF built.tag = "Panic"
                THEN pc' = "panicked" /\ agg' = agg
                ELSE pc' = "returned" /\ agg' = built.results
       ELSE pc' = "par_join" /\ agg' = agg
    /\ UNCHANGED <<consistent, op, res, client, idx, last_result, outcomes,
                   reordered, ret, inspVars, invVars, ctlVars>>

\* One of the calls in flight completes, in any order.
ParallelComplete ==
    /\ pc = "par_join"
    /\ \E i \in pending, result \in CallOutcomes :
          /\ outcomes' = (i :> result) @@ outcomes
          /\ pending' = still_pending(pending, i, result)
          /\ reordered' = (reordered \/ \E j \in pending : j < i)
    /\ UNCHANGED <<agg, consistent, op, res, client, call, pc, idx, last_result, calls, ret,
                   contacted, inspVars, invVars, ctlVars>>

\* join_all resolves and parallel_call returns the aggregate to a caller that
\* hands it on as it is (eth_get_transaction_count).
ParallelReturn ==
    /\ pc = "par_join"
    /\ join_all_ready(pending, outcomes)
    /\ LET built == from_non_empty_iter(zip(providers(client), outcomes))
       IN  IF built.tag = "Panic"
           THEN pc' = "panicked" /\ agg' = agg
           ELSE pc' = "returned" /\ agg' = built.results
    /\ UNCHANGED <<consistent, op, res, client, call, idx, last_result, calls, pending,
                   outcomes, reordered, ret, contacted, inspVars, invVars, ctlVars>>

\* join_all resolves in eth_get_logs, eth_get_block_by_number or
\* eth_get_transaction_receipt: parallel_call returns the aggregate and the
\* method reduces it by equality before it suspends again, in the same poll.
ReduceCallResults ==
    /\ pc = "par_join"
    /\ join_all_ready(pending, outcomes)
    /\ LET built == from_non_empty_iter(zip(providers(client), outcomes))
       IN  IF built.tag = "Panic"
           THEN pc' = "panicked" /\ UNCHANGED <<agg, op, res>>
           ELSE /\ pc' = "returned"
                /\ agg' = built.results
                /\ op' = "reduce_with_equality"
                /\ res' = reduce_with_equality(built.results)
    /\ UNCHANGED <<consistent, client, call, idx, last_result, calls, pending,
                   outcomes, reordered, ret, contacted, inspVars, invVars, ctlVars>>

\* Structural equality of the errors of three kinds.
EqualAllErrors == { <<e, e>> : e \in AllRpcError }

InitCalls ==
    /\ agg = EmptyMap
    /\ consistent = EqualAllErrors
    /\ op = "none"
    /\ res = NoResult
    /\ client \in Clients
    /\ call = "none"
    /\ pc = "idle"
    /\ idx = 0
    /\ last_result = None
    /\ calls = <<>>
    /\ pending = {}
    /\ outcomes = EmptyMap
    /\ reordered = FALSE
    /\ ret = NoResult
    /\ contacted = <<>>
    /\ NoInspection
    /\ NoInvocations
    /\ NoExecutions

NextCalls ==
    \/ SequentialStart
    \/ SequentialResume
    \/ ParallelStart
    \/ ParallelComplete
    \/ ParallelReturn
    \/ ReduceCallResults

SpecCalls == InitCalls /\ [][NextCalls]_vars

\* Length of an explicit provider list of a client whose calls are followed to
\* their end.
MaxFairList == 2

\* Clients of both kinds: without explicit list, and with an explicit list
\* that may repeat a provider or be empty.
FairClients ==
    {from_state(chain) : chain \in EthereumNetwork}
        \cup {new("Mainnet", SomeOf(list)) :
                 list \in UNION { [1..n -> {MAINNET_PROVIDERS[1], MAINNET_PROVIDERS[2]}] :
                                    n \in 0..MaxFairList }}

InitCallsFair ==
    /\ agg = EmptyMap
    /\ consistent = EqualAllErrors
    /\ op = "none"
    /\ res = NoResult
    /\ client \in FairClients
    /\ call = "none"
    /\ pc = "idle"
    /\ idx = 0
    /\ last_result = None
    /\ calls = <<>>
    /\ pending = {}
    /\ outcomes = EmptyMap
    /\ reordered = FALSE
    /\ ret = NoResult
    /\ contacted = <<>>
    /\ NoInspection
    /\ NoInvocations
    /\ NoExecutions

\* The calls under the hypothesis that every eth_rpc::call eventually returns
\* and that the executor resumes a future that is ready.
SpecCallsFair ==
    /\ InitCallsFair
    /\ [][NextCalls]_vars
    /\ WF_vars(SequentialResume)
    /\ WF_vars(ParallelComplete)
    /\ WF_vars(ParallelReturn \/ ReduceCallResults)

\* join_all resolves in eth_fee_history: parallel_call returns the aggregate
\* and the method reduces it by strict majority on the extracted key before it
\* suspends again, in the same poll.
EthFeeHistory ==
    /\ pc = "par_join"
    /\ join_all_ready(pending, outcomes)
    /\ LET built == from_non_empty_iter(zip(providers(client), outcomes))
       IN  IF built.tag = "Panic"
           THEN pc' = "panicked" /\ UNCHANGED <<agg, op, res>>
           ELSE /\ pc' = "returned"
                /\ agg' = built.results
                /\ op' = "reduce_with_strict_majority_by_key"
                /\ res' \in reduce_with_strict_majority_by_key(built.results)
    /\ UNCHANGED <<consistent, client, call, idx, last_result, calls, pending,
                   outcomes, reordered, ret, contacted, inspVars, invVars, ctlVars>>

\* The calls of a client together with both reductions its methods apply.
NextClient ==
    \/ NextCalls
    \/ EthFeeHistory

SpecClient == InitCalls /\ [][NextClient]_vars

\* ---------------------------------------------------------------- error inspector
\* Entries of an inspected InconsistentResults.
MaxInspected == 3

\* Transport failures the inspector's predicate may accept or not.
HttpOutcallErrors == { HttpOutcallError(2, "timeout"), HttpOutcallError(1, "fatal") }

InspectedResults ==
    {Ok(v) : v \in CallValues} \cup {Err(e) : e \in AllRpcError \cup HttpOutcallErrors}

\* MultiCallError<T>: a consistent error or a non-empty inconsistent aggregate.
MultiCallErrors ==
    {ConsistentError(e) : e \in AllRpcError \cup HttpOutcallErrors}
        \cup {InconsistentResults(m) :
                 m \in UNION { [1..n -> InspectedResults] : n \in 1..MaxInspected }}

\* has_http_outcall_error_matching demanding the match of every entry.
has_http_outcall_error_matching_all(self, pred) ==
    IF self.tag = "ConsistentError"
    THEN IF self.error.kind = "HttpOutcallError" THEN self.error \in pred ELSE FALSE
    ELSE \A p \in DOMAIN self.results :
             LET result == self.results[p]
             IN  IF ~result.ok /\ result.error.kind = "HttpOutcallError"
                 THEN result.error \in pred
                 ELSE FALSE

\* MultiCallError::has_http_outcall_error_matching; the predicate is the set of
\* the HttpOutcallErrors it accepts.
has_http_outcall_error_matching(self, pred) ==
    IF self.tag = "ConsistentError"
    THEN IF self.error.kind = "HttpOutcallError" THEN self.error \in pred ELSE FALSE
    ELSE \E p \in DOMAIN self.results :
             LET result == self.results[p]
             IN  IF ~result.ok /\ result.error.kind = "HttpOutcallError"
                 THEN result.error \in pred
                 ELSE FALSE

InitInspect ==
    /\ agg = EmptyMap
    /\ consistent = EqualAllErrors
    /\ op = "none"
    /\ res \in MultiCallErrors
    /\ NoCall
    /\ predicate \in SUBSET HttpOutcallErrors
    /\ matches = None
    /\ NoInvocations
    /\ NoExecutions

HasHttpOutcallErrorMatching ==
    /\ matches = None
    /\ res.tag \in {"ConsistentError", "InconsistentResults"}
    /\ matches' = SomeOf(has_http_outcall_error_matching(res, predicate))
    /\ UNCHANGED <<agg, consistent, op, res, callVars, predicate, invVars, ctlVars>>

NextInspect == HasHttpOutcallErrorMatching

SpecInspect == InitInspect /\ [][NextInspect]_vars

\* ---------------------------------------------------------------- interleaved calls
\* A result written into the slot of every call that is waiting in join_all.
deliver_shared(invs, i, pos, result) ==
    [j \in DOMAIN invs |->
        IF j = i \/ invs[j].pc = "par_join"
        THEN [invs[j] EXCEPT !.outcomes = (pos :> result) @@ @,
                             !.pending = still_pending(@, pos, result)]
        ELSE invs[j]]

\* The future of call `pos` of invocation i resolves: the result goes to the
\* locals of that invocation (its `result`, or its slot of join_all's vector).
deliver(invs, i, pos, result) ==
    [invs EXCEPT ![i].outcomes = (pos :> result) @@ @,
                 ![i].pending = still_pending(@, pos, result)]

\* parallel_call of invocation i up to the await of join_all.
InvokeParallel(i) ==
    /\ invocations[i].pc = "idle"
    /\ LET list == providers(client)
           self == invocations[i]
           built == from_non_empty_iter(zip(list, EmptyMap))
       IN  invocations' =
               [invocations EXCEPT ![i] =
                   IF Len(list) = 0
                   THEN IF built.tag = "Panic"
                        THEN [self EXCEPT !.strategy = "parallel_call", !.pc = "panicked"]
                        ELSE [self EXCEPT !.strategy = "parallel_call", !.pc = "returned",
                                          !.agg = built.results]
                   ELSE [self EXCEPT !.strategy = "parallel_call", !.pc = "par_join",
                                     !.pending = 1..Len(list)]]
    /\ UNCHANGED <<agg, consistent, op, res, callVars, inspVars, replies, ctlVars>>

\* sequential_call_until_ok of invocation i up to its first await.
InvokeSequential(i) ==
    /\ invocations[i].pc = "idle"
    /\ LET list == providers(client)
           self == invocations[i]
       IN  invocations' =
               [invocations EXCEPT ![i] =
                   IF Len(list) = 0
                   THEN [self EXCEPT !.strategy = "sequential_call_until_ok",
                                     !.pc = "panicked",
                                     !.ret = unwrap_or_else_panic(None)]
                   ELSE [self EXCEPT !.strategy = "sequential_call_until_ok",
                                     !.pc = "seq_await", !.idx = 1, !.pending = {1}]]
    /\ UNCHANGED <<agg, consistent, op, res, callVars, inspVars, replies, ctlVars>>

\* One eth_rpc::call of invocation i returns. In parallel_call the result
\* waits in join_all; in sequential_call_until_ok the loop goes on with it.
TransportReply(i) ==
    /\ \E pos \in invocations[i].pending, result \in CallOutcomes :
          LET delivered == deliver(invocations, i, pos, result)
              self == delivered[i]
              m == seq_match(result, self.last_result)
          IN  /\ replies' = (<<i, pos>> :> result) @@ replies
              /\ invocations' =
                     IF invocations[i].strategy = "parallel_call" THEN delivered
                     ELSE [delivered EXCEPT ![i] =
                              IF m.returns
                              THEN [self EXCEPT !.pc = "returned", !.ret = m.value,
                                                !.last_result = m.last_result]
                              ELSE IF self.idx < Len(providers(client))
                              THEN [self EXCEPT !.idx = @ + 1,
                                                !.pending = {self.idx + 1},
                                                !.last_result = m.last_result]
                              ELSE [self EXCEPT
                                       !.pc = IF m.last_result.some THEN "returned"
                                              ELSE "panicked",
                                       !.ret = unwrap_or_else_panic(m.last_result),
                                       !.last_result = m.last_result]]
    /\ UNCHANGED <<agg, consistent, op, res, callVars, inspVars, ctlVars>>

\* join_all of invocation i resolves and its parallel_call returns the
\* aggregate.
JoinAndReturn(i) ==
    /\ invocations[i].pc = "par_join"
    /\ join_all_ready(invocations[i].pending, invocations[i].outcomes)
    /\ LET built == from_non_empty_iter(zip(providers(client), invocations[i].outcomes))
       IN  invocations' =
               [invocations EXCEPT ![i] =
                   IF built.tag = "Panic" THEN [@ EXCEPT !.pc = "panicked"]
                   ELSE [@ EXCEPT !.pc = "returned", !.agg = built.results]]
    /\ UNCHANGED <<agg, consistent, op, res, callVars, inspVars, replies, ctlVars>>

\* One client, on which the calls of Invocations run.
InitShared ==
    /\ agg = EmptyMap
    /\ consistent = EqualAllErrors
    /\ op = "none"
    /\ res = NoResult
    /\ client \in FairClients
    /\ call = "none"
    /\ pc = "idle"
    /\ idx = 0
    /\ last_result = None
    /\ calls = <<>>
    /\ pending = {}
    /\ outcomes = EmptyMap
    /\ reordered = FALSE
    /\ ret = NoResult
    /\ contacted = <<>>
    /\ NoInspection
    /\ NoInvocations
    /\ NoExecutions

NextShared ==
    \E i \in Invocations :
        \/ InvokeParallel(i)
        \/ InvokeSequential(i)
        \/ TransportReply(i)
        \/ JoinAndReturn(i)

SpecShared == InitShared /\ [][NextShared]_vars

\* ---------------------------------------------------------------- controller service
\* Exec ids the registry can hand out.
MaxExecIds == 2

\* How often the completion closure of one execution can be invoked before
\* the model stops following further completion requests for it.
MaxCompletions == 2

ExecIds == 1..MaxExecIds

\* exec_output of an ExecutionFinishedRequest.
ExecOutputs == {"output1", "output2"}

\* The variants of protocol::syscall::Request.
SyscallRequests ==
    {"MintCycles", "MsgCyclesAccept", "MsgCyclesAvailable", "CanisterCyclesBalance",
     "CanisterCyclesWithdraw", "CanisterCyclesRefund", "SetCertifiedData",
     "RegisterCallback", "UnregisterCallback", "PushOutputMessage"}

\* rpc::Error::ServerError
ServerError == Err("ServerError")

\* The state the registry keeps for an active execution: whether its
\* completion closure is still there.
ActiveExecutionState == [completion |-> TRUE]

\* ActiveExecutionStateRegistry::extract_completion: takes the completion
\* closure out of the execution state, if the execution exists and still has
\* it.
extract_completion(reg, exec_id) ==
    IF exec_id \in DOMAIN reg /\ reg[exec_id].completion
    THEN [some |-> TRUE, registry |-> [reg EXCEPT ![exec_id].completion = FALSE]]
    ELSE [some |-> FALSE, registry |-> reg]

\* ActiveExecutionStateRegistry::borrow_system_state_accessor: the accessor of
\* an execution that exists; the borrow gives it back when dropped.
borrow_system_state_accessor(reg, exec_id) == [some |-> exec_id \in DOMAIN reg]

\* execution_finished when extract_completion gave None: nothing is invoked
\* and the reply is ServerError.
on_no_completion ==
    [invoked |-> <<>>, performed |-> <<>>, reply |-> ServerError]

\* The closure run on the extracted completion, invoking it twice.
on_completion_twice(exec_id, exec_output) ==
    [invoked |-> << <<exec_id, exec_output>>, <<exec_id, exec_output>> >>,
     performed |-> <<>>,
     reply |-> Ok("ExecutionFinishedReply")]

\* execution_finished when extract_completion gave the completion: it is
\* invoked with the exec id and the output, and the reply is Ok.
on_completion(exec_id, exec_output) ==
    [invoked |-> << <<exec_id, exec_output>> >>,
     performed |-> <<>>,
     reply |-> Ok("ExecutionFinishedReply")]

\* The match with the refund arm withdrawing cycles.
syscall_match_refund_withdraws(request) ==
    CASE request = "MintCycles" ->
             [performed |-> <<"mint_cycles">>, reply |-> "MintCycles"]
      [] request = "MsgCyclesAccept" ->
             [performed |-> <<"msg_cycles_accept">>, reply |-> "MsgCyclesAccept"]
      [] request = "MsgCyclesAvailable" ->
             [performed |-> <<"msg_cycles_available">>, reply |-> "MsgCyclesAvailable"]
      [] request = "CanisterCyclesBalance" ->
             [performed |-> <<"canister_cycles_balance">>, reply |-> "CanisterCyclesBalance"]
      [] request = "CanisterCyclesWithdraw" ->
             [performed |-> <<"canister_cycles_withdraw">>, reply |-> "CanisterCyclesWithdraw"]
      [] request = "CanisterCyclesRefund" ->
             [performed |-> <<"canister_cycles_withdraw">>, reply |-> "CanisterCyclesRefund"]
      [] request = "SetCertifiedData" ->
             [performed |-> <<"set_certified_data">>, reply |-> "SetCertifiedData"]
      [] request = "RegisterCallback" ->
             [performed |-> <<"register_callback">>, reply |-> "RegisterCallback"]
      [] request = "UnregisterCallback" ->
             [performed |-> <<"unregister_callback">>, reply |-> "UnregisterCallback"]
      [] request = "PushOutputMessage" ->
             [performed |-> <<"push_output_request">>, reply |-> "PushOutputMessage"]

\* The match on the request in canister_system_call: the operations performed
\* on the system state accessor and the variant of the reply.
syscall_match(request) ==
    CASE request = "MintCycles" ->
             [performed |-> <<"mint_cycles">>, reply |-> "MintCycles"]
      [] request = "MsgCyclesAccept" ->
             [performed |-> <<"msg_cycles_accept">>, reply |-> "MsgCyclesAccept"]
      [] request = "MsgCyclesAvailable" ->
             [performed |-> <<"msg_cycles_available">>, reply |-> "MsgCyclesAvailable"]
      [] request = "CanisterCyclesBalance" ->
             [performed |-> <<"canister_cycles_balance">>, reply |-> "CanisterCyclesBalance"]
      [] request = "CanisterCyclesWithdraw" ->
             [performed |-> <<"canister_cycles_withdraw">>, reply |-> "CanisterCyclesWithdraw"]
      [] request = "CanisterCyclesRefund" ->
             [performed |-> <<"canister_cycles_refund">>, reply |-> "CanisterCyclesRefund"]
      [] request = "SetCertifiedData" ->
             [performed |-> <<"set_certified_data">>, reply |-> "SetCertifiedData"]
      [] request = "RegisterCallback" ->
             [performed |-> <<"register_callback">>, reply |-> "RegisterCallback"]
      [] request = "UnregisterCallback" ->
             [performed |-> <<"unregister_callback">>, reply |-> "UnregisterCallback"]
      [] request = "PushOutputMessage" ->
             [performed |-> <<"push_output_request">>, reply |-> "PushOutputMessage"]

\* ControllerServiceImpl::canister_system_call: the operations performed on
\* the accessor of the execution and the reply.
canister_system_call(reg, exec_id, request) ==
    IF ~borrow_system_state_accessor(reg, exec_id).some
    THEN [registry |-> reg, invoked |-> <<>>, performed |-> <<>>, reply |-> ServerError]
    ELSE [registry |-> reg,
          invoked |-> <<>>,
          performed |-> syscall_match(request).performed,
          reply |-> Ok(syscall_match(request).reply)]

\* The number of invocations of each completion closure after a request.
CountCompletions(counts, invoked) ==
    [e \in DOMAIN counts |->
        counts[e] + Cardinality({k \in DOMAIN invoked : invoked[k][1] = e})]

\* ActiveExecutionStateRegistry::register_execution: a new execution gets an
\* exec id that was never handed out before.
RegisterExecution ==
    /\ \E exec_id \in ExecIds \ issued :
          /\ registry' = (exec_id :> ActiveExecutionState) @@ registry
          /\ issued' = issued \cup {exec_id}
    /\ UNCHANGED <<agg, consistent, op, res, callVars, inspVars, invVars, completions,
                   finishing, served>>

\* ActiveExecutionStateRegistry::unregister_execution: the execution is over
\* and its state leaves the registry.
UnregisterExecution ==
    /\ \E exec_id \in DOMAIN registry :
          registry' = [e \in DOMAIN registry \ {exec_id} |-> registry[e]]
    /\ UNCHANGED <<agg, consistent, op, res, callVars, inspVars, invVars, issued,
                   completions, finishing, served>>

\* The sandbox process sends an ExecutionFinishedRequest with any exec id:
\* execution_finished up to the return of extract_completion. Without a
\* completion the request is answered at once; with one, the request holds
\* the closure it took out of the registry, which other requests and the
\* registry's users can reach before the closure is invoked.
ExecutionFinished ==
    /\ \E exec_id \in ExecIds, exec_output \in ExecOutputs :
          LET extracted == extract_completion(registry, exec_id)
          IN  IF ~extracted.some
              THEN /\ served' = [handler |-> "execution_finished", exec_id |-> exec_id,
                                 request |-> exec_output,
                                 invoked |-> on_no_completion.invoked,
                                 performed |-> on_no_completion.performed,
                                 reply |-> on_no_completion.reply]
                   /\ UNCHANGED <<registry, finishing>>
              ELSE /\ registry' = extracted.registry
                   /\ finishing' = (exec_id :> exec_output) @@ finishing
                   /\ served' = served
    /\ UNCHANGED <<agg, consistent, op, res, callVars, inspVars, invVars, issued, completions>>

\* A request holding an extracted completion invokes it and replies.
ExecutionFinishedComplete ==
    /\ \E exec_id \in DOMAIN finishing :
          LET done == on_completion(exec_id, finishing[exec_id])
          IN  /\ completions[exec_id] < MaxCompletions
              /\ completions' = CountCompletions(completions, done.invoked)
              /\ finishing' = [e \in DOMAIN finishing \ {exec_id} |-> finishing[e]]
              /\ served' = [handler |-> "execution_finished", exec_id |-> exec_id,
                            request |-> finishing[exec_id], invoked |-> done.invoked,
                            performed |-> done.performed, reply |-> done.reply]
    /\ UNCHANGED <<agg, consistent, op, res, callVars, inspVars, invVars, registry, issued>>

\* The sandbox process sends a CanisterSystemCallRequest with any exec id.
CanisterSystemCall ==
    /\ \E exec_id \in ExecIds, request \in SyscallRequests :
          LET done == canister_system_call(registry, exec_id, request)
          IN  /\ registry' = done.registry
              /\ completions' = CountCompletions(completions, done.invoked)
              /\ served' = [handler |-> "canister_system_call", exec_id |-> exec_id,
                            request |-> request, invoked |-> done.invoked,
                            performed |-> done.performed, reply |-> done.reply]
    /\ UNCHANGED <<agg, consistent, op, res, callVars, inspVars, invVars, issued, finishing>>

\* A controller service over an empty registry.
InitController ==
    /\ agg = EmptyMap
    /\ consistent = EqualAllErrors
    /\ op = "none"
    /\ res = NoResult
    /\ NoCall
    /\ NoInspection
    /\ NoInvocations
    /\ registry = EmptyMap
    /\ issued = {}
    /\ completions = [e \in ExecIds |-> 0]
    /\ finishing = EmptyMap
    /\ served = NoRequest

NextController ==
    \/ RegisterExecution
    \/ UnregisterExecution
    \/ ExecutionFinished
    \/ ExecutionFinishedComplete
    \/ CanisterSystemCall

SpecController == InitController /\ [][NextController]_vars

\* ---------------------------------------------------------------- properties
\* Restriction of an aggregate to some of its providers.
Restrict(map, S) == [p \in S |-> map[p]]

Reducers == {"reduce_with_equality", "reduce_with_min_by_key",
             "reduce_with_strict_majority_by_key"}

ErrTags == {"ConsistentError", "InconsistentResults"}

\* Every provider of the aggregate returned a value.
AllOkAgg == \A p \in DOMAIN agg : agg[p].ok

\* Providers that returned an error.
Erring == {p \in DOMAIN agg : ~agg[p].ok}

\* The keys of an all-Ok aggregate, and the providers voting for a key.
KeysOf == {extractor(agg[p].value) : p \in DOMAIN agg}

Bucket(k) == {p \in DOMAIN agg : extractor(agg[p].value) = k}

\* Same key implies same value.
Uniform ==
    \A p, q \in DOMAIN agg :
        extractor(agg[p].value) = extractor(agg[q].value) => agg[p] = agg[q]

\* Keys whose bucket no other bucket exceeds.
MaxKeys ==
    {k \in KeysOf : \A k2 \in KeysOf : Cardinality(Bucket(k)) >= Cardinality(Bucket(k2))}

\* C1: reduce_with_equality never fabricates agreement: when it returns Ok(v),
\* every provider entry of the aggregate is Ok and its value equals v.
C1_EqualityNeverFabricates ==
    (op = "reduce_with_equality" /\ res.tag = "Ok")
        => \A p \in DOMAIN agg : agg[p] = Ok(res.value)

C1_Witness ==
    /\ op = "reduce_with_equality"
    /\ res.tag = "Ok"
    /\ Cardinality(DOMAIN agg) >= 3

\* C2: when every provider entry is Ok(v) for the same v (a single provider
\* included), reduce_with_equality returns Ok(v).
C2_UnanimousReturnsValue ==
    \A v \in T :
        (op = "reduce_with_equality" /\ \A p \in DOMAIN agg : agg[p] = Ok(v))
            => res = ROk(v)

C2_Witness ==
    /\ op = "reduce_with_equality"
    /\ Cardinality(DOMAIN agg) >= 2
    /\ \E v \in T : (\A p \in DOMAIN agg : agg[p] = Ok(v)) /\ res = ROk(v)

\* C3: fail closed: when at least one provider entry is Err, all_ok and the
\* three reductions return an error, never Ok, whatever the other providers
\* returned.
C3_FailClosed ==
    (op # "none" /\ Erring # {}) => res.tag \in ErrTags

C3_Witness ==
    /\ op = "reduce_with_strict_majority_by_key"
    /\ Cardinality(Erring) = 1
    /\ Cardinality(DOMAIN agg) >= 3
    /\ \A p, q \in DOMAIN agg \ Erring : agg[p] = agg[q]
    /\ res.tag = "ConsistentError"

\* C4: strict majority by key on an all-Ok aggregate whose same-key values are
\* equal: a key whose bucket is strictly larger than every other bucket (in
\* particular the only key) wins, and the result is Ok with that bucket's value,
\* also when the bucket does not hold more than half of the providers.
C4_PluralityWins ==
    (op = "reduce_with_strict_majority_by_key" /\ AllOkAgg /\ Uniform)
        => \A k \in KeysOf :
              (\A k2 \in KeysOf \ {k} : Cardinality(Bucket(k)) > Cardinality(Bucket(k2)))
                  => \E p \in Bucket(k) : res = ROk(agg[p].value)

C4_Witness ==
    /\ op = "reduce_with_strict_majority_by_key"
    /\ AllOkAgg
    /\ Cardinality(KeysOf) = 3
    /\ Cardinality(DOMAIN agg) = 4
    /\ res.tag = "Ok"
    /\ 2 * Cardinality(Bucket(extractor(res.value))) <= Cardinality(DOMAIN agg)

\* C5: strict majority by key returns Ok(v) only if the bucket of v's key is
\* strictly larger than the bucket of every other key and, for every key of the
\* aggregate, all providers with that key returned equal values.
C5_MajorityOnlyIfStrictAndUniform ==
    (op = "reduce_with_strict_majority_by_key" /\ res.tag = "Ok")
        => /\ AllOkAgg
           /\ \E p \in DOMAIN agg : agg[p].value = res.value
           /\ \A k \in KeysOf \ {extractor(res.value)} :
                  Cardinality(Bucket(extractor(res.value))) > Cardinality(Bucket(k))
           /\ Uniform

C5_Witness ==
    /\ op = "reduce_with_strict_majority_by_key"
    /\ res.tag = "Ok"
    /\ AllOkAgg
    /\ Cardinality(DOMAIN agg) = 5
    /\ Cardinality(Bucket(extractor(res.value))) = 3
    /\ \E k \in KeysOf : k # extractor(res.value) /\ Cardinality(Bucket(k)) = 2

\* C6: strict majority by key with two or more buckets of which the two largest
\* have equal size never returns Ok: it returns InconsistentResults whose
\* entries are exactly the entries of two buckets of maximal size.
C6_TieIsInconsistent ==
    (op = "reduce_with_strict_majority_by_key" /\ AllOkAgg /\ Uniform
        /\ Cardinality(MaxKeys) >= 2)
        => /\ res.tag = "InconsistentResults"
           /\ \E k1, k2 \in MaxKeys :
                  /\ k1 # k2
                  /\ res.results = Restrict(agg, Bucket(k1) \cup Bucket(k2))

C6_Witness ==
    /\ op = "reduce_with_strict_majority_by_key"
    /\ AllOkAgg
    /\ Uniform
    /\ Cardinality(KeysOf) = 2
    /\ Cardinality(MaxKeys) = 2
    /\ res.tag = "InconsistentResults"
    /\ Cardinality(DOMAIN res.results) = 4

\* The first provider, in identity order, whose value differs from the value of
\* an earlier provider with the same key.
Conflicting ==
    {p \in DOMAIN agg :
        \E q \in DOMAIN agg :
            /\ q < p
            /\ extractor(agg[q].value) = extractor(agg[p].value)
            /\ agg[q] # agg[p]}

\* C7 as stated: a same-key conflict is reported as exactly two entries.
C7_ConflictIsAPair ==
    (op = "reduce_with_strict_majority_by_key" /\ AllOkAgg /\ ~Uniform)
        => /\ res.tag = "InconsistentResults"
           /\ Cardinality(DOMAIN res.results) = 2

\* C7 (amended): when a scanned value maps to a key already present but differs
\* from that bucket's value, the reduction fails at once with InconsistentResults
\* holding every provider already placed in that bucket together with the new
\* one; providers after the new one play no part.
C7_ConflictReportsBucket ==
    (op = "reduce_with_strict_majority_by_key" /\ AllOkAgg /\ ~Uniform)
        => LET cur == Min(Conflicting)
           IN  res = InconsistentResults(
                   Restrict(agg, {q \in DOMAIN agg :
                                    /\ q <= cur
                                    /\ extractor(agg[q].value) = extractor(agg[cur].value)}))

C7_Witness ==
    /\ op = "reduce_with_strict_majority_by_key"
    /\ AllOkAgg
    /\ ~Uniform
    /\ res.tag = "InconsistentResults"
    /\ Cardinality(DOMAIN res.results) = 3
    /\ Min(Conflicting) < Max(DOMAIN agg)

\* Providers whose value differs from the base, the value of the first provider.
Differing == {p \in DOMAIN agg : agg[p] # agg[Min(DOMAIN agg)]}

\* C8 as stated: the error of reduce_with_equality holds one entry for every
\* provider of the input.
C8_ErrorHoldsAllProviders ==
    (op = "reduce_with_equality" /\ AllOkAgg /\ Differing # {})
        => res = InconsistentResults(agg)

\* C8 (amended): when some value differs from the base, reduce_with_equality
\* returns InconsistentResults holding the base entry and the entry of every
\* provider whose value differs from the base, and no entry of a provider that
\* agrees with the base.
C8_ErrorHoldsBaseAndDiffering ==
    (op = "reduce_with_equality" /\ AllOkAgg /\ Differing # {})
        => res = InconsistentResults(Restrict(agg, Differing \cup {Min(DOMAIN agg)}))

C8_Witness ==
    /\ op = "reduce_with_equality"
    /\ AllOkAgg
    /\ Cardinality(DOMAIN agg) = 3
    /\ agg[1] = agg[2]
    /\ agg[3] # agg[1]
    /\ res.tag = "InconsistentResults"
    /\ DOMAIN res.results = {1, 3}

\* C9: when every provider entry is the same JsonRpcError{code, message},
\* all_ok and the three reductions return ConsistentError wrapping a
\* JsonRpcError with that code and message.
C9_SameJsonRpcErrorIsConsistent ==
    \A e \in RpcError :
        (op # "none" /\ e.kind = "JsonRpcError" /\ \A p \in DOMAIN agg : agg[p] = Err(e))
            => res = ConsistentError(JsonRpcError(e.code, e.message))

C9_Witness ==
    /\ op \in Reducers
    /\ Cardinality(DOMAIN agg) >= 3
    /\ \A p \in DOMAIN agg : agg[p] = Err(JsonRpcError(32000, "x"))
    /\ res = ConsistentError(JsonRpcError(32000, "x"))

\* Erring providers whose error is inconsistent with the held candidate, the
\* error of the first erring provider.
Inconsistent ==
    {p \in Erring : <<agg[Min(Erring)].error, agg[p].error>> \notin consistent}

\* C10: in all_ok the first Err entry judged inconsistent with the held
\* candidate ends the scan: the result is InconsistentResults with exactly the
\* held candidate's entry and the current entry, and the entries after the
\* current one do not influence it.
C10_FirstInconsistencyEndsScan ==
    (op = "all_ok" /\ Inconsistent # {})
        => LET held == Min(Erring)
               cur == Min(Inconsistent)
           IN  /\ res = InconsistentResults(Restrict(agg, {held, cur}))
               /\ Cardinality(DOMAIN res.results) = 2
               /\ res = all_ok(Restrict(agg, {p \in DOMAIN agg : p <= cur}))

C10_Witness ==
    /\ op = "all_ok"
    /\ Inconsistent # {}
    /\ Cardinality({p \in Erring : p < Min(Inconsistent)}) >= 2
    /\ Min(Inconsistent) < Max(DOMAIN agg)
    /\ res.tag = "InconsistentResults"

\* The erring provider scanned just before erring provider p.
PrevErring(p) == Max({q \in Erring : q < p})

\* Every erring entry after the first is consistent with the erring entry
\* before it.
AdjacentConsistent ==
    \A p \in Erring \ {Min(Erring)} :
        <<agg[PrevErring(p)].error, agg[p].error>> \in consistent

\* C11 as stated: all_ok tests adjacent pairs of errors only, so a chain of
\* errors of which every adjacent pair is consistent gives ConsistentError.
C11_AdjacentPairsOnly ==
    (op = "all_ok" /\ Erring # {} /\ AdjacentConsistent) => res.tag = "ConsistentError"

\* C11 (amended): all_ok tests every Err entry after the first against the
\* error of the first erring provider, which stays the held candidate: it
\* returns ConsistentError exactly when every error is consistent with the
\* first one, and for a chain E1, E2, E3 with E1~E2, E2~E3 but not E1~E3 it
\* returns InconsistentResults holding the entries of E1 and E3.
C11_ComparedWithFirst ==
    (op = "all_ok" /\ Erring # {})
        => /\ res.tag = "ConsistentError" <=> Inconsistent = {}
           /\ (AdjacentConsistent /\ Inconsistent # {})
                  => res = InconsistentResults(
                                Restrict(agg, {Min(Erring), Min(Inconsistent)}))

C11_Witness ==
    /\ op = "all_ok"
    /\ Cardinality(Erring) = 3
    /\ AdjacentConsistent
    /\ Inconsistent = {Max(Erring)}
    /\ res = InconsistentResults(Restrict(agg, {Min(Erring), Max(Erring)}))

\* C12 as stated: the ConsistentError of all_ok wraps the error of the last
\* erring provider.
C12_LastErringWins ==
    (op = "all_ok" /\ res.tag = "ConsistentError")
        => res.error = agg[Max(Erring)].error

\* C12 (amended): when all_ok ends its scan holding an error, it returns
\* ConsistentError wrapping the held candidate, which is the error of the first
\* erring provider; a JsonRpcError keeps its code and message and any other
\* error is wrapped unchanged.
C12_FirstErringWins ==
    (op = "all_ok" /\ Erring # {} /\ Inconsistent = {})
        => res = ConsistentError(agg[Min(Erring)].error)

C12_Witness ==
    /\ op = "all_ok"
    /\ Cardinality(Erring) >= 2
    /\ agg[Min(Erring)].error.kind # "JsonRpcError"
    /\ agg[Max(Erring)].error # agg[Min(Erring)].error
    /\ res = ConsistentError(agg[Min(Erring)].error)

\* C13: an error dominates the usable values: with exactly one Err(e) entry and
\* all other entries Ok, all_ok returns ConsistentError(e); Ok entries neither
\* clear the held candidate nor take part in the consistency test, so the
\* result is that of the erring entries alone.
C13_ErrorDominatesValues ==
    (op = "all_ok" /\ Erring # {})
        => /\ Cardinality(Erring) = 1 => res = ConsistentError(agg[Min(Erring)].error)
           /\ res = all_ok(Restrict(agg, Erring))
           /\ res.tag = "InconsistentResults" => DOMAIN res.results \subseteq Erring

C13_Witness ==
    /\ op = "all_ok"
    /\ Cardinality(DOMAIN agg) = 3
    /\ Erring = {2}
    /\ res = ConsistentError(agg[2].error)

\* The provider list of the running call and its positions.
Plist == providers(client)

Positions == 1..Len(Plist)

\* Positions whose call returned a value.
Succeeded == {i \in DOMAIN outcomes : outcomes[i].ok}

\* C14: sequential_call_until_ok returns Ok(v) of the first provider in list
\* order whose call succeeds, and no provider after it in the list is ever
\* contacted.
C14_FirstSuccessReturned ==
    (call = "sequential_call_until_ok" /\ Succeeded # {})
        => /\ pc = "returned"
           /\ ret = Ok(outcomes[Min(Succeeded)].value)
           /\ calls = [i \in 1..Min(Succeeded) |-> i]
           /\ DOMAIN outcomes = 1..Min(Succeeded)
           /\ pending = {}

C14_Witness ==
    /\ call = "sequential_call_until_ok"
    /\ pc = "returned"
    /\ Len(Plist) = 3
    /\ DOMAIN outcomes = {1, 2}
    /\ outcomes[1] = Err(JsonRpcError(32000, "x"))
    /\ outcomes[2].ok
    /\ ret = Ok(outcomes[2].value)
    /\ calls = <<1, 2>>

\* C15: when every provider call fails, sequential_call_until_ok returns the
\* error of the last provider of the list, whatever the kinds of the errors of
\* the providers before it.
C15_LastErrorReturned ==
    (call = "sequential_call_until_ok" /\ Succeeded = {} /\ Positions # {})
        => /\ pc = "returned" <=> DOMAIN outcomes = Positions
           /\ pc = "returned" => ret = Err(outcomes[Len(Plist)].error)

C15_Witness ==
    /\ call = "sequential_call_until_ok"
    /\ pc = "returned"
    /\ Len(Plist) = 3
    /\ DOMAIN outcomes = {1, 2, 3}
    /\ Succeeded = {}
    /\ outcomes[1].error.kind = "JsonRpcError"
    /\ outcomes[2].error.kind = "ProviderError"
    /\ outcomes[3].error.kind = "HttpOutcallError"
    /\ ret = outcomes[3]

\* C16: sequential_call_until_ok contacts the providers strictly in list order
\* with at most one call in flight: a call is issued only when the calls to all
\* providers before it in the list have completed with an error.
C16_OneCallAtATimeInListOrder ==
    call = "sequential_call_until_ok"
        => /\ Cardinality(pending) <= 1
           /\ calls = [i \in 1..Len(calls) |-> i]
           /\ pending \subseteq {Len(calls)}
           /\ \A k \in 1..Len(calls) :
                  \A j \in 1..(k - 1) : j \in DOMAIN outcomes /\ ~outcomes[j].ok

C16_Witness ==
    /\ call = "sequential_call_until_ok"
    /\ pc = "seq_await"
    /\ calls = <<1, 2, 3>>
    /\ pending = {3}
    /\ DOMAIN outcomes = {1, 2}

\* C17: parallel_call issues exactly one call for every entry of the provider
\* list, whatever the outcomes of the other calls: a call that was issued is in
\* flight or has completed, and none is skipped or cancelled after a success or
\* a failure of another call.
C17_EveryProviderCalledOnce ==
    (call = "parallel_call" /\ pc # "idle")
        => /\ calls = [i \in Positions |-> i]
           /\ pending \cup DOMAIN outcomes = Positions
           /\ pending \cap DOMAIN outcomes = {}

C17_Witness ==
    /\ call = "parallel_call"
    /\ pc = "par_join"
    /\ Len(Plist) = 3
    /\ Cardinality(pending) = 1
    /\ \E i, j \in DOMAIN outcomes : outcomes[i].ok /\ ~outcomes[j].ok

\* C18: parallel_call is a join-all barrier: it has returned only when every
\* call it issued has produced an outcome, and no aggregate exists and no
\* reduction has run before that.
C18_JoinAllBarrier ==
    call = "parallel_call"
        => /\ pc = "returned" => (pending = {} /\ DOMAIN outcomes = Positions)
           /\ (agg # EmptyMap \/ op # "none") => (pc = "returned" /\ pending = {})

C18_Witness ==
    /\ call = "parallel_call"
    /\ pc = "returned"
    /\ Len(Plist) = 3
    /\ DOMAIN outcomes = {1, 2, 3}
    /\ op = "reduce_with_equality"

\* The aggregate the outcomes determine: every provider of the list with the
\* outcome of its call (of its last call in the list when listed twice).
OutcomeByProvider ==
    [p \in {Plist[i] : i \in Positions} |->
        outcomes[Max({i \in Positions : Plist[i] = p})]]

\* C19: whatever the order in which the calls complete, the aggregate of
\* parallel_call maps each provider to the outcome of that provider's call, so
\* the aggregate and the reduction applied to it depend on the outcomes only.
C19_AggregateIndependentOfCompletionOrder ==
    (call = "parallel_call" /\ pc = "returned")
        => /\ agg = OutcomeByProvider
           /\ op # "none" => res = reduce_with_equality(OutcomeByProvider)

C19_Witness ==
    /\ call = "parallel_call"
    /\ pc = "returned"
    /\ reordered
    /\ Len(Plist) = 3
    /\ Plist[1] > Plist[2]
    /\ Plist[2] > Plist[3]
    /\ outcomes[1] # outcomes[3]
    /\ agg = OutcomeByProvider
    /\ op = "reduce_with_equality"

\* C20: parallel_call never discards an outcome: the outcome of every call
\* appears in the returned aggregate, which has as many entries as calls were
\* made.
C20_NoOutcomeDiscarded ==
    (call = "parallel_call" /\ pc = "returned")
        => /\ Cardinality(DOMAIN agg) = Len(calls)
           /\ \A i \in Positions : agg[Plist[i]] = outcomes[i]

\* C21: end to end, eth_get_logs, eth_get_block_by_number and
\* eth_get_transaction_receipt return Ok(v) only if every provider of the list
\* was called and every one of those calls returned Ok with a value equal to v.
C21_OkOnlyIfEveryCallAgrees ==
    (call = "parallel_call" /\ op = "reduce_with_equality" /\ res.tag = "Ok")
        => /\ DOMAIN outcomes = Positions
           /\ \A i \in Positions : outcomes[i] = Ok(res.value)

\* C22: whenever a reducer returns Ok(v), v is a value that at least one
\* provider of the input aggregate returned.
C22_ReducedValueIsFromInput ==
    (op \in Reducers /\ res.tag = "Ok")
        => \E p \in DOMAIN agg : agg[p] = Ok(res.value)

C22_Witness ==
    /\ op = "reduce_with_min_by_key"
    /\ res.tag = "Ok"
    /\ Cardinality(DOMAIN agg) >= 3
    /\ \E p, q \in DOMAIN agg :
           /\ agg[p].value.key # agg[q].value.key
           /\ agg[p].value.data # agg[q].value.data
           /\ extractor(agg[p].value) > extractor(agg[q].value)
           /\ p < q
    /\ \E p \in DOMAIN agg : agg[p] = Ok(res.value)

\* C23: every InconsistentResults returned by all_ok or by a reducer is a
\* sub-map of the input aggregate: its providers are providers of the input and
\* each has exactly the outcome it had in the input.
C23_ErrorIsSubMapOfInput ==
    (op # "none" /\ res.tag = "InconsistentResults")
        => /\ DOMAIN res.results \subseteq DOMAIN agg
           /\ \A p \in DOMAIN res.results : res.results[p] = agg[p]

C23_Witness ==
    /\ op = "reduce_with_equality"
    /\ res.tag = "InconsistentResults"
    /\ AllOkAgg
    /\ DOMAIN res.results # DOMAIN agg
    /\ Cardinality(DOMAIN res.results) >= 2
    /\ \A p \in DOMAIN res.results : res.results[p] = agg[p]

\* C24: building a MultiCallResults from an empty source panics, so
\* parallel_call with an empty provider list panics: it makes no call and
\* yields neither an aggregate nor an error value.
C24_EmptySourcePanics ==
    /\ from_non_empty_iter(<<>>) = Panic("BUG: MultiCallResults cannot be empty!")
    /\ (call = "parallel_call" /\ client.providers.some /\ client.providers.value = <<>>)
           => /\ pc = "panicked"
              /\ agg = EmptyMap
              /\ contacted = <<>>
              /\ op = "none"
              /\ res = NoResult

C24_Witness ==
    /\ call = "parallel_call"
    /\ client.providers.some
    /\ client.providers.value = <<>>
    /\ pc = "panicked"
    /\ agg = EmptyMap

\* C25: sequential_call_until_ok with an empty provider list makes no call and
\* panics instead of returning an error; with a non-empty list it never
\* panics.
C25_PanicsExactlyOnEmptyList ==
    call = "sequential_call_until_ok"
        => /\ pc = "panicked" <=> (client.providers.some /\ client.providers.value = <<>>)
           /\ pc = "panicked"
                  => /\ contacted = <<>>
                     /\ calls = <<>>
                     /\ ret = Panic("BUG: No providers in RPC client")
           /\ pc # "panicked" => ret # Panic("BUG: No providers in RPC client")

C25_Witness ==
    /\ call = "sequential_call_until_ok"
    /\ client.providers.some
    /\ client.providers.value = <<>>
    /\ pc = "panicked"
    /\ contacted = <<>>

\* C26: every MultiCallResults of a reachable state has at least one entry: the
\* aggregate parallel_call returned and the aggregate inside an
\* InconsistentResults of all_ok or of a reducer.
C26_AggregatesAreNonEmpty ==
    /\ (call = "parallel_call" /\ pc = "returned") => DOMAIN agg # {}
    /\ res.tag = "InconsistentResults" => DOMAIN res.results # {}

C26_Witness ==
    /\ call = "parallel_call"
    /\ pc = "returned"
    /\ DOMAIN agg # {}
    /\ op = "reduce_with_strict_majority_by_key"
    /\ res.tag = "InconsistentResults"
    /\ DOMAIN res.results # {}

\* C27: reduce_with_min_by_key on an all-Ok aggregate returns Ok with a value
\* of the input whose key is less than or equal to the key of every provider's
\* value, whether or not any other provider agrees with it.
C27_MinByKeyReturnsSmallestKey ==
    (op = "reduce_with_min_by_key" /\ AllOkAgg)
        => /\ res.tag = "Ok"
           /\ \E p \in DOMAIN agg : agg[p] = Ok(res.value)
           /\ \A p \in DOMAIN agg : extractor(res.value) <= extractor(agg[p].value)

C27_Witness ==
    /\ op = "reduce_with_min_by_key"
    /\ DOMAIN agg = {1, 2, 3}
    /\ extractor(agg[1].value) = 3
    /\ extractor(agg[2].value) = 1
    /\ extractor(agg[3].value) = 2
    /\ res = ROk(agg[2].value)

\* C28: has_http_outcall_error_matching(P) is true exactly when the error is
\* ConsistentError(HttpOutcallError(e)) with P(e), or InconsistentResults with
\* at least one entry Err(HttpOutcallError(e)) with P(e).
C28_InspectorFindsMatchingHttpError ==
    matches.some
        => matches.value =
               (\/ /\ res.tag = "ConsistentError"
                   /\ res.error.kind = "HttpOutcallError"
                   /\ res.error \in predicate
                \/ /\ res.tag = "InconsistentResults"
                   /\ \E p \in DOMAIN res.results :
                          /\ ~res.results[p].ok
                          /\ res.results[p].error.kind = "HttpOutcallError"
                          /\ res.results[p].error \in predicate)

C28_Witness ==
    /\ matches = SomeOf(TRUE)
    /\ res.tag = "InconsistentResults"
    /\ \E p, q, r \in DOMAIN res.results :
           /\ res.results[p].ok
           /\ res.results[q] = Err(HttpOutcallError(1, "fatal"))
           /\ res.results[r] = Err(HttpOutcallError(2, "timeout"))
    /\ predicate = {HttpOutcallError(2, "timeout")}

\* C29: for every non-empty aggregate, all_ok and the three reducers return Ok,
\* ConsistentError or InconsistentResults: none of their internal panics is
\* reached.
C29_NoInternalPanic ==
    op # "none" => res.tag \in {"Ok"} \cup ErrTags

C29_Witness ==
    /\ op = "reduce_with_strict_majority_by_key"
    /\ AllOkAgg
    /\ Cardinality(KeysOf) >= 2
    /\ res.tag = "Ok"

\* The providers of the default list of a network.
NetworkProviders(chain) ==
    IF chain = "Mainnet"
    THEN {MAINNET_PROVIDERS[i] : i \in DOMAIN MAINNET_PROVIDERS}
    ELSE {SEPOLIA_PROVIDERS[i] : i \in DOMAIN SEPOLIA_PROVIDERS}

\* The list a client is configured with: its explicit list, otherwise the
\* default list of its network.
ConfiguredList ==
    IF client.providers.some THEN client.providers.value
    ELSE IF client.chain = "Mainnet" THEN MAINNET_PROVIDERS
    ELSE SEPOLIA_PROVIDERS

\* The calls made so far went to the first providers of the configured list.
CallsFollowConfiguredList ==
    /\ Len(contacted) <= Len(ConfiguredList)
    /\ \A k \in DOMAIN contacted : contacted[k] = ConfiguredList[k]
    /\ call = "parallel_call" => contacted = ConfiguredList

\* C30 as stated: every call uses the explicit list when there is one and
\* otherwise the default list of the client's network, a client built
\* from_state has no explicit list, and no provider of the other network is
\* ever contacted.
C30_OtherNetworkNeverContacted ==
    call # "none"
        => /\ CallsFollowConfiguredList
           /\ \A chain \in EthereumNetwork : ~from_state(chain).providers.some
           /\ \A k \in DOMAIN contacted : contacted[k] \in NetworkProviders(client.chain)

\* C30, amended: every call uses the explicit list when there is one and
\* otherwise the default list of the client's network; a client built
\* from_state has no explicit list, and a client without explicit list
\* contacts providers of its own network only. An explicit list is used as
\* given, whatever the network of its providers.
C30_ConfiguredListIsUsed ==
    call # "none"
        => /\ CallsFollowConfiguredList
           /\ \A chain \in EthereumNetwork : ~from_state(chain).providers.some
           /\ ~client.providers.some
                  => \A k \in DOMAIN contacted :
                         /\ contacted[k] \in NetworkProviders(client.chain)
                         /\ \A chain \in EthereumNetwork \ {client.chain} :
                                contacted[k] \notin NetworkProviders(chain)

C30_Witness ==
    /\ call = "parallel_call"
    /\ pc = "returned"
    /\ client.chain = "Mainnet"
    /\ client.providers.some
    /\ Len(client.providers.value) = 2
    /\ contacted = client.providers.value
    /\ contacted[1] \in NetworkProviders("Sepolia")
    /\ contacted[2] \in NetworkProviders("Mainnet")

\* C32: every InconsistentResults returned by all_ok or a reducer holds at
\* least two entries, of distinct providers, and is either exactly two Err
\* entries that the consistency predicate judges inconsistent, or Ok entries
\* only, at least two of them with unequal values; it never mixes Ok and Err.
C32_ErrorShape ==
    (op # "none" /\ res.tag = "InconsistentResults")
        => LET held == res.results
           IN  /\ Cardinality(DOMAIN held) >= 2
               /\ \/ /\ Cardinality(DOMAIN held) = 2
                     /\ \A p \in DOMAIN held : ~held[p].ok
                     /\ \E p, q \in DOMAIN held :
                            p # q /\ <<held[p].error, held[q].error>> \notin consistent
                  \/ /\ \A p \in DOMAIN held : held[p].ok
                     /\ \E p, q \in DOMAIN held : held[p].value # held[q].value

C32_Witness ==
    /\ op = "reduce_with_min_by_key"
    /\ res.tag = "InconsistentResults"
    /\ \E p \in DOMAIN agg : agg[p].ok
    /\ Cardinality(DOMAIN res.results) = 2
    /\ \A p \in DOMAIN res.results : ~res.results[p].ok

\* Providers whose value has the smallest key of an all-Ok aggregate.
MinKeyProviders ==
    {p \in DOMAIN agg : \A q \in DOMAIN agg : extractor(agg[p].value) <= extractor(agg[q].value)}

\* C34: when several providers' values share the smallest key,
\* reduce_with_min_by_key returns the value of the one with the lowest provider
\* identity, and it returns Ok even when those values are unequal.
C34_MinByKeyTieGoesToLowestProvider ==
    (op = "reduce_with_min_by_key" /\ AllOkAgg)
        => res = ROk(agg[Min(MinKeyProviders)].value)

C34_Witness ==
    /\ op = "reduce_with_min_by_key"
    /\ AllOkAgg
    /\ Cardinality(MinKeyProviders) >= 2
    /\ \E p, q \in MinKeyProviders : agg[p].value # agg[q].value
    /\ Min(MinKeyProviders) # Min(DOMAIN agg)
    /\ res = ROk(agg[Min(MinKeyProviders)].value)
    /\ res # ROk(agg[Max(MinKeyProviders)].value)

\* A dispatch strategy has been called and has not come to its end.
CallRunning == pc \in {"seq_await", "par_join"}

\* The call has returned, or has panicked on an empty provider list.
CallEnded == pc \in {"returned", "panicked"}

\* C33 as stated: over a list of N providers sequential_call_until_ok makes at
\* most N calls and contacts no provider twice, and if every transport call
\* eventually returns then both strategies eventually return.
C33_NoProviderContactedTwice ==
    /\ [](call = "sequential_call_until_ok"
              => /\ Len(contacted) <= Len(ConfiguredList)
                 /\ \A j, k \in DOMAIN contacted : j # k => contacted[j] # contacted[k])
    /\ CallRunning ~> CallEnded

\* C33, amended: sequential_call_until_ok makes at most one call per entry of
\* the provider list, in list order and never going back to an entry, so a
\* provider is contacted twice only when the list names it twice; and if every
\* transport call eventually returns then both strategies eventually end.
C33_OneCallPerEntryAndTermination ==
    /\ [](call = "sequential_call_until_ok"
              => /\ Len(contacted) <= Len(ConfiguredList)
                 /\ calls = [k \in 1..Len(calls) |-> k]
                 /\ Len(contacted) = Len(calls)
                 /\ \A k \in DOMAIN contacted : contacted[k] = ConfiguredList[k])
    /\ CallRunning ~> CallEnded

C33_Witness ==
    /\ call = "sequential_call_until_ok"
    /\ pc = "returned"
    /\ Len(ConfiguredList) = 2
    /\ calls = <<1, 2>>
    /\ contacted[1] = contacted[2]
    /\ Succeeded = {}

\* The outcomes of the transport calls of invocation i, by list position.
OwnReplies(i) ==
    [pos \in {q \in 1..Len(ConfiguredList) : <<i, q>> \in DOMAIN replies} |-> replies[<<i, pos>>]]

\* The aggregate the transport calls of invocation i determine.
OwnAggregate(i) ==
    [p \in {ConfiguredList[pos] : pos \in DOMAIN OwnReplies(i)} |->
        OwnReplies(i)[Max({pos \in DOMAIN OwnReplies(i) : ConfiguredList[pos] = p})]]

\* What sequential_call_until_ok returns for the outcomes of its own calls.
OwnSequentialResult(i) ==
    LET own == OwnReplies(i)
        oks == {pos \in DOMAIN own : own[pos].ok}
    IN  IF oks # {} THEN own[Min(oks)] ELSE own[Len(ConfiguredList)]

\* C31: no state is shared between calls: a call leaves the client's network
\* and provider list unchanged, and what a call returns is determined by the
\* outcomes of its own transport calls alone, whatever other calls ran before
\* it or run interleaved with it on the same client.
C31_NoStateSharedBetweenCalls ==
    /\ [][client' = client]_vars
    /\ [](\A i \in Invocations :
              /\ invocations[i].outcomes = OwnReplies(i)
              /\ (invocations[i].strategy = "parallel_call" /\ invocations[i].pc = "returned")
                     => /\ DOMAIN OwnReplies(i) = 1..Len(ConfiguredList)
                        /\ invocations[i].agg = OwnAggregate(i)
              /\ (invocations[i].strategy = "sequential_call_until_ok"
                      /\ invocations[i].pc = "returned")
                     => invocations[i].ret = OwnSequentialResult(i))

C31_Witness ==
    /\ Len(ConfiguredList) = 2
    /\ ConfiguredList[1] # ConfiguredList[2]
    /\ \A i \in Invocations :
           /\ invocations[i].strategy = "parallel_call"
           /\ invocations[i].pc = "returned"
           /\ invocations[i].agg = OwnAggregate(i)
    /\ \A pos \in 1..2 : replies[<<"first", pos>>] # replies[<<"second", pos>>]
    /\ invocations["first"].agg # invocations["second"].agg

\* The execution has a registered completion closure that was not taken yet.
HasCompletion(e) == e \in DOMAIN registry /\ registry[e].completion

\* C35: execution_finished for an exec id without registered completion (never
\* registered, or its completion taken by an earlier request) replies
\* ServerError and invokes no completion closure; a request that finds the
\* registered completion takes it, invokes it exactly once with that exec id
\* and output and replies Ok; so each execution is completed at most once over
\* any sequence and interleaving of requests.
C35_CompletedAtMostOnce ==
    /\ [](\A e \in ExecIds :
              /\ completions[e] <= 1
              /\ HasCompletion(e) => (e \in issued /\ completions[e] = 0)
              /\ e \in DOMAIN finishing
                    => (e \in issued /\ completions[e] = 0 /\ ~HasCompletion(e)))
    /\ [][(/\ served'.handler = "execution_finished"
           /\ (served' # served \/ completions' # completions))
              => IF served'.reply = ServerError
                 THEN /\ ~HasCompletion(served'.exec_id)
                      /\ served'.invoked = <<>>
                      /\ completions' = completions
                      /\ registry' = registry
                      /\ finishing' = finishing
                 ELSE /\ served'.reply = Ok("ExecutionFinishedReply")
                      /\ served'.exec_id \in DOMAIN finishing
                      /\ served'.request = finishing[served'.exec_id]
                      /\ served'.invoked = << <<served'.exec_id, served'.request>> >>
                      /\ completions' =
                             [completions EXCEPT ![served'.exec_id] = @ + 1]
                      /\ served'.exec_id \notin DOMAIN finishing'
                      /\ registry' = registry]_vars
    /\ [][\A e \in ExecIds :
             /\ (e \in DOMAIN finishing' /\ e \notin DOMAIN finishing)
                   => (HasCompletion(e) /\ completions' = completions /\ served' = served)
             /\ (e \in DOMAIN finishing /\ e \notin DOMAIN finishing')
                   => completions'[e] = completions[e] + 1
             /\ (HasCompletion(e) /\ e \in DOMAIN registry' /\ ~registry'[e].completion)
                   => e \in DOMAIN finishing']_vars

C35_Witness ==
    /\ served.handler = "execution_finished"
    /\ served.reply = ServerError
    /\ served.invoked = <<>>
    /\ completions[served.exec_id] = 1
    /\ \E e \in DOMAIN finishing : e \notin DOMAIN registry

\* The SystemStateAccessor operation each request variant names.
AccessorOperation ==
    [MintCycles |-> "mint_cycles",
     MsgCyclesAccept |-> "msg_cycles_accept",
     MsgCyclesAvailable |-> "msg_cycles_available",
     CanisterCyclesBalance |-> "canister_cycles_balance",
     CanisterCyclesWithdraw |-> "canister_cycles_withdraw",
     CanisterCyclesRefund |-> "canister_cycles_refund",
     SetCertifiedData |-> "set_certified_data",
     RegisterCallback |-> "register_callback",
     UnregisterCallback |-> "unregister_callback",
     PushOutputMessage |-> "push_output_request"]

\* C36: canister_system_call for an exec id whose accessor cannot be borrowed
\* (an execution that does not exist, or does not exist any more) replies
\* ServerError and performs no operation on any accessor; for an active
\* execution it performs exactly the one operation the request names and
\* replies with the reply variant of that request.
C36_OneOperationPerSystemCall ==
    [][(served'.handler = "canister_system_call" /\ served' # served)
          => /\ served'.invoked = <<>>
             /\ completions' = completions
             /\ registry' = registry
             /\ finishing' = finishing
             /\ IF borrow_system_state_accessor(registry, served'.exec_id).some
                THEN /\ served'.performed = <<AccessorOperation[served'.request]>>
                     /\ served'.reply = Ok(served'.request)
                ELSE /\ served'.performed = <<>>
                     /\ served'.reply = ServerError]_vars

C36_Witness ==
    /\ served.handler = "canister_system_call"
    /\ served.request = "CanisterCyclesRefund"
    /\ served.exec_id \in DOMAIN registry
    /\ served.performed = <<"canister_cycles_refund">>
    /\ served.reply = Ok("CanisterCyclesRefund")
    /\ \E e \in issued : e \notin DOMAIN registry

====
